---- MODULE Spec2Model ----
(***************************************************************************)
(* Model of roadmap_generator.py: the simple workflow (generate_roadmap),  *)
(* the interactive workflow (generate_roadmap_with_questions), the         *)
(* question helper (generate_questions_from_roadmap) and the CLI (main).   *)
(*                                                                         *)
(* Texts are sequences of words, user input lines are sequences of        *)
(* characters, exceptions are records [type, msg].  The Generation Client, *)
(* the Animation Presenter, the status callback and the user are the       *)
(* environment: every result they can give is a nondeterministic input of  *)
(* the action that consumes it.                                            *)
(***************************************************************************)
EXTENDS Integers, Sequences, FiniteSets, TLC

\* ------------------------------------------------------------- bounds
MaxQuestions == 2      \* longest QuestionSet the client returns

\* ------------------------------------------------- environment values
Ideas == {"a grocery list app", "a chess clock"}
Roadmaps == {"R1", "R2"}
RefinedRoadmaps == {"R1-refined", "R2-refined"}
\* --output: absent (<< >>), a relative path, an absolute path; paths are
\* sequences of components, an absolute one starts with "/".
NoOutput == << >>
OutputArgs == { NoOutput, <<"plan.md">>, <<"/", "tmp", "plan.md">> }
\* --animation values tried on the command line: the default, another style
\* of the parser's choices, and a value that is not among them.
AnimationArgs == {"spinner", "typing", "bounce"}

\* Choice labels, as sequences of characters like the lines the user types.
Solo == <<"S", "o", "l", "o">>
Team == <<"T", "e", "a", "m">>

\* The questions the client may return.  A value is either a question text
\* (choices = << >>) or, as in the spec's scenario, a list of choice labels.
QuestionPool ==
  { [key |-> "team size", text |-> "How big is the team?", choices |-> <<Solo, Team>>],
    [key |-> "priority", text |-> "Which features first?", choices |-> << >>],
    [key |-> "timeline", text |-> "What is the timeline?", choices |-> << >>] }

\* Sequences over S of length at most n.
RECURSIVE SeqsUpTo(_, _)
SeqsUpTo(S, n) ==
  IF n = 0 THEN { << >> }
  ELSE LET shorter == SeqsUpTo(S, n - 1)
       IN shorter \cup { Append(s, x) : s \in shorter, x \in S }

\* A dict has one value per key: the entries of a QuestionSet have distinct keys.
QuestionSets ==
  { qs \in SeqsUpTo(QuestionPool, MaxQuestions) :
      \A i, j \in 1..Len(qs) : i # j => qs[i].key # qs[j].key }

\* Lines the user may type, as sequences of characters: blank, whitespace only,
\* an index in and out of the range of the choice list, a word, a padded index.
Whitespace == {" "}
Digits == {"1", "2", "3"}
Inputs == { << >>, <<" ">>, <<"1">>, <<"2">>, <<"3">>, <<"x">>, <<" ", "1", " ">> }

\* What a remote call can raise: the overload error after the client's own
\* retries, or any other failure.
OverloadRaised == [type |-> "ServiceOverloadedError", msg |-> <<"Overloaded">>]
GenericRaised == [type |-> "Exception", msg |-> <<"Connection", "refused">>]
ClientFailures == {OverloadRaised, GenericRaised}
\* What a status callback can raise.
CallbackRaised == [type |-> "Exception", msg |-> <<"callback", "failed">>]
\* What writing the output file can raise.
WriteRaised == [type |-> "Exception", msg |-> <<"Permission", "denied">>]

\* ------------------------------------------------------ message texts
OkMark == "(ok)"       \* the check-mark emoji
ErrMark == "(x)"       \* the cross emoji

MsgSimpleComplete == <<OkMark, "Roadmap", "generation", "complete!">>
MsgInitialComplete == <<OkMark, "Initial", "roadmap", "generation", "complete!">>
\* A slip: the questions stage reuses the text of the first stage.
MsgQuestionsCompleteDuplicate == MsgInitialComplete
MsgQuestionsComplete == <<OkMark, "Customized", "questions", "generated!">>
MsgCustomizationComplete == <<OkMark, "Roadmap", "customization", "complete!">>
MsgOverloadStatus ==
  <<ErrMark, "Error:", "Service", "is", "currently", "overloaded.", "The",
    "application", "has", "attempted", "to", "retry", "but", "was", "unsuccessful.">>
MsgErrorStatus(e) == <<ErrMark, "Error:">> \o e.msg

SimpleOverloadText ==
  <<"Service", "is", "currently", "overloaded.", "Please", "try", "again", "later.">>
InteractiveOverloadText ==
  <<"Service", "is", "currently", "overloaded.", "Please", "try", "again", "later",
    "with", "exponential", "backoff.">>
QuestionsOverloadText ==
  <<"Service", "is", "currently", "overloaded", "while", "generating", "questions.",
    "Please", "try", "again", "later.">>

NewException(text) == [type |-> "Exception", msg |-> text]

\* ------------------------------------------------------------- state
VARIABLES
  caller,           \* "main" (the CLI) or "direct" (a program calling a workflow)
  with_questions,   \* TRUE: interactive workflow, FALSE: simple workflow
  idea,             \* idea_description
  status_callback,  \* "none" or "given"
  output,           \* args.output (<< >>: absent)
  animation,        \* args.animation as typed on the command line
  animation_type,   \* the AnimationType the workflow runs with
  asyncio_imported, \* the module was run as a script, so `import asyncio` ran
  pc,               \* position of the single thread of control
  calls,            \* remote calls issued so far, with their arguments
  inflight,         \* remote calls issued and not yet completed
  replies,          \* how each completed call ended: [call, kind, value]
  anims,            \* start/stop events of the LoadingAnimation objects
  notes,            \* status_callback invocations in order: message, whether it
                    \* raised, and at: how many remote calls had been issued
  logged,           \* logger.error contexts, in order
  initial_roadmap,
  questions,
  answers,          \* insertion-ordered dict: sequence of [key, value]
  qi,               \* number of QuestionSet entries already processed
  user_answer,      \* the last line input() returned
  prompts,          \* the input() calls in order: question shown, line read
  result,           \* what the workflow gave its caller
  stdout,           \* what main printed
  files,            \* files main wrote: set of [path, content]
  exit_code         \* << >> until the process exits, then <<status>>

cli == <<animation, animation_type, asyncio_imported>>

vars == <<cli, caller, with_questions, idea, status_callback, output, pc, calls, inflight,
          replies,
          anims, notes, logged, initial_roadmap, questions, answers, qi, user_answer,
          prompts, result, stdout, files, exit_code>>

NoValue == "None"
NoResult == [kind |-> "none"]
Returned(v) == [kind |-> "value", value |-> v]
Raised(e) == [kind |-> "error", exc |-> e]

EmptyAnswers == << >>

Init ==
  /\ caller \in {"main", "direct"}
  /\ with_questions \in BOOLEAN
  /\ idea \in Ideas
  /\ status_callback \in (IF caller = "main" THEN {"none"} ELSE {"none", "given"})
  /\ output \in (IF caller = "main" THEN OutputArgs ELSE {NoOutput})
  /\ animation \in (IF caller = "main" THEN AnimationArgs ELSE {"spinner"})
  /\ animation_type = (IF caller = "main" THEN NoValue ELSE "SPINNER")
  /\ asyncio_imported \in (IF caller = "main" THEN BOOLEAN ELSE {TRUE})
  /\ pc = (IF caller = "main" THEN "main_entry"
           ELSE IF with_questions THEN "iw_entry" ELSE "sw_entry")
  /\ calls = << >>
  /\ inflight = {}
  /\ replies = << >>
  /\ anims = << >>
  /\ notes = << >>
  /\ logged = << >>
  /\ initial_roadmap = NoValue
  /\ questions = << >>
  /\ answers = EmptyAnswers
  /\ qi = 0
  /\ user_answer = << >>
  /\ prompts = << >>
  /\ result = NoResult
  /\ stdout = << >>
  /\ files = {}
  /\ exit_code = << >>

\* --------------------------------------------------- local bookkeeping
\* The effects one step accumulates before it ends: the callback's messages,
\* the animation events, the error log and the exception being propagated.
NoExc == [type |-> "none", msg |-> << >>]
Here == [notes |-> notes, anims |-> anims, logged |-> logged, exc |-> NoExc]

Failing(c) == c.exc # NoExc

\* `if status_callback: status_callback(msg)`; cbRaises: this invocation raises.
Notify(c, msg, cbRaises) ==
  IF status_callback = "none" THEN [c EXCEPT !.exc = NoExc]
  ELSE [c EXCEPT !.notes = Append(@, [msg |-> msg, raised |-> cbRaises, at |-> Len(calls)]),
                 !.exc = IF cbRaises THEN CallbackRaised ELSE NoExc]

LogError(c, context) == [c EXCEPT !.logged = Append(@, context)]

AnimStart(c, id) == [c EXCEPT !.anims = Append(@, [ev |-> "start", id |-> id])]
AnimStop(c, id) == [c EXCEPT !.anims = Append(@, [ev |-> "stop", id |-> id])]

\* `raise` at the end of a handler: the handled exception (or its translation)
\* propagates unless the handler's own callback call raised first.
Reraise(c, e) == IF Failing(c) THEN c ELSE [c EXCEPT !.exc = e]

Call(op, roadmap, idea_, answers_) ==
  [op |-> op, roadmap |-> roadmap, idea |-> idea_, answers |-> answers_]

Issue(call) ==
  /\ calls' = Append(calls, call)
  /\ inflight' = inflight \cup {Len(calls) + 1}
  /\ UNCHANGED replies

\* The call issued last completes: kind "value" (it returned v) or "raised".
Reply(kind, v) == [call |-> Len(calls), kind |-> kind, value |-> v]
Complete(kind, v) ==
  /\ inflight' = inflight \ {Len(calls)}
  /\ replies' = Append(replies, Reply(kind, v))

\* A slip: the next call is fired before the last one has resolved.
IssueWithoutWaiting(v, call) ==
  /\ replies' = replies
  /\ calls' = Append(calls, call)
  /\ inflight' = inflight \cup {Len(calls) + 1}

\* The last call returned v and the next call is issued at once.
CompleteAndIssue(v, call) ==
  /\ replies' = Append(replies, Reply("value", v))
  /\ calls' = Append(calls, call)
  /\ inflight' = (inflight \ {Len(calls)}) \cup {Len(calls) + 1}

Commit(c) ==
  /\ notes' = c.notes
  /\ anims' = c.anims
  /\ logged' = c.logged

\* ----------------------------------------- generate_roadmap (simple)
\* except ServiceOverloadedError / except Exception of generate_roadmap.
SimpleHandler(c, e, cbRaises) ==
  IF e.type = "ServiceOverloadedError"
  THEN Reraise(Notify(LogError(c, "Service overloaded even after retries"),
                      MsgOverloadStatus, cbRaises),
               NewException(SimpleOverloadText))
  ELSE Reraise(Notify(LogError(c, "Error generating roadmap"),
                      MsgErrorStatus(e), cbRaises),
               e)

\* A slip: the refinement call gets a placeholder answer instead of none.
SimpleAnswersPlaceholder == <<[key |-> "team size", value |-> << >>]>>

\* The AnswerSet the simple workflow hands to the refinement call.
SimpleAnswers == EmptyAnswers

SW_CallInitial ==
  /\ pc = "sw_entry"
  /\ Issue(Call("generate_initial_roadmap", NoValue, idea, EmptyAnswers))
  /\ pc' = "sw_initial"
  /\ UNCHANGED <<cli, caller, with_questions, idea, status_callback, output, anims, notes,
                 logged, initial_roadmap, questions, answers, qi, user_answer, prompts,
                 result, stdout, files, exit_code>>

\* The variant that reports the initial generation as a checkpoint of its own.
SW_InitialReturnsNotifying(r) ==
  /\ pc = "sw_initial"
  /\ initial_roadmap' = r
  /\ CompleteAndIssue(r, Call("reflect_on_roadmap_with_answers", r, idea, EmptyAnswers))
  /\ Commit(Notify(Here, MsgInitialComplete, FALSE))
  /\ pc' = "sw_refine"
  /\ UNCHANGED <<cli, caller, with_questions, idea, status_callback, output, questions,
                 answers, qi, user_answer, prompts, result, stdout, files, exit_code>>

SW_InitialReturns(r) ==
  /\ pc = "sw_initial"
  /\ initial_roadmap' = r
  /\ CompleteAndIssue(r, Call("reflect_on_roadmap_with_answers", r, idea, SimpleAnswers))
  /\ pc' = "sw_refine"
  /\ UNCHANGED <<cli, caller, with_questions, idea, status_callback, output, anims, notes,
                 logged, questions, answers, qi, user_answer, prompts, result, stdout,
                 files, exit_code>>

SW_Fail(c) ==
  /\ Commit(c)
  /\ result' = Raised(c.exc)
  /\ pc' = "Failed"

SW_InitialRaises(e, cbRaises) ==
  /\ pc = "sw_initial"
  /\ Complete("raised", e)
  /\ SW_Fail(SimpleHandler(Here, e, cbRaises))
  /\ UNCHANGED <<cli, caller, with_questions, idea, status_callback, output, calls,
                 initial_roadmap, questions, answers, qi, user_answer, prompts, stdout,
                 files, exit_code>>

SW_RefineReturns(r, cbRaises1, cbRaises2) ==
  /\ pc = "sw_refine"
  /\ Complete("value", r)
  /\ LET c == Notify(Here, MsgSimpleComplete, cbRaises1)
     IN IF Failing(c)
        THEN SW_Fail(SimpleHandler(c, c.exc, cbRaises2))
        ELSE /\ Commit(c)
             /\ result' = Returned(r)
             /\ pc' = "Done"
  /\ UNCHANGED <<cli, caller, with_questions, idea, status_callback, output, calls,
                 initial_roadmap, questions, answers, qi, user_answer, prompts, stdout,
                 files, exit_code>>

SW_RefineRaises(e, cbRaises) ==
  /\ pc = "sw_refine"
  /\ Complete("raised", e)
  /\ SW_Fail(SimpleHandler(Here, e, cbRaises))
  /\ UNCHANGED <<cli, caller, with_questions, idea, status_callback, output, calls,
                 initial_roadmap, questions, answers, qi, user_answer, prompts, stdout,
                 files, exit_code>>

SimpleNext ==
  \/ SW_CallInitial
  \/ \E r \in Roadmaps : SW_InitialReturns(r)
  \/ \E e \in ClientFailures, b \in BOOLEAN : SW_InitialRaises(e, b)
  \/ \E r \in RefinedRoadmaps, b1, b2 \in BOOLEAN : SW_RefineReturns(r, b1, b2)
  \/ \E e \in ClientFailures, b \in BOOLEAN : SW_RefineRaises(e, b)

\* ---------------------------------- generate_questions_from_roadmap
\* What the helper raises when client.generate_questions_for_roadmap raises e.
QuestionsHelperRaise(c, e) ==
  IF e.type = "ServiceOverloadedError"
  THEN [LogError(c, "Service overloaded even after retries when generating questions")
          EXCEPT !.exc = NewException(QuestionsOverloadText)]
  ELSE [LogError(c, "Error generating questions from roadmap") EXCEPT !.exc = e]

\* ------------------------- generate_roadmap_with_questions (interactive)
\* The `except Exception` of one animated stage: stop its animation, log,
\* notify, re-raise.
\* A slip: the stage's handler forgets to stop the animation.
StageHandlerNoStop(c, e, anim, context, cbRaises) ==
  Reraise(Notify(LogError(c, context), MsgErrorStatus(e), cbRaises), e)

StageHandler(c, e, anim, context, cbRaises) ==
  Reraise(Notify(LogError(AnimStop(c, anim), context), MsgErrorStatus(e), cbRaises), e)

\* A slip: the outer handler re-raises without telling the status callback.
OuterHandlerSilent(c, e, cbRaises) ==
  IF e.type = "ServiceOverloadedError"
  THEN Reraise(LogError(c, "Service overloaded even after retries"),
               NewException(InteractiveOverloadText))
  ELSE Reraise(LogError(c, "Error generating roadmap with questions"), e)

\* A slip: the outer handler has no ServiceOverloadedError clause.
OuterHandlerUntranslated(c, e, cbRaises) ==
  Reraise(Notify(LogError(c, "Error generating roadmap with questions"),
                 MsgErrorStatus(e), cbRaises),
          e)

\* The outer except ServiceOverloadedError / except Exception.
OuterHandler(c, e, cbRaises) ==
  IF e.type = "ServiceOverloadedError"
  THEN Reraise(Notify(LogError(c, "Service overloaded even after retries"),
                      MsgOverloadStatus, cbRaises),
               NewException(InteractiveOverloadText))
  ELSE Reraise(Notify(LogError(c, "Error generating roadmap with questions"),
                      MsgErrorStatus(e), cbRaises),
               e)

\* A stage's try body after its remote call returned: stop the animation, then
\* notify; an exception of the callback is handled by the stage's own handler
\* and then by the outer one.
StageSuccess(c, anim, msg, context, cb1, cb2, cb3) ==
  LET c1 == Notify(AnimStop(c, anim), msg, cb1)
  IN IF Failing(c1)
     THEN LET c2 == StageHandler(c1, c1.exc, anim, context, cb2)
          IN OuterHandler(c2, c2.exc, cb3)
     ELSE c1

\* A stage whose remote call (or helper) raised e.
StageFailure(c, e, anim, context, cb2, cb3) ==
  LET c2 == StageHandler(c, e, anim, context, cb2)
  IN OuterHandler(c2, c2.exc, cb3)

\* str.strip(): leading and trailing whitespace removed.
RECURSIVE LStrip(_)
LStrip(s) == IF s # << >> /\ Head(s) \in Whitespace THEN LStrip(Tail(s)) ELSE s
RECURSIVE RStrip(_)
RStrip(s) ==
  IF s # << >> /\ s[Len(s)] \in Whitespace THEN RStrip(SubSeq(s, 1, Len(s) - 1)) ELSE s
Strip(s) == RStrip(LStrip(s))

\* d[key] = value on an insertion-ordered dict.
DictKeys(d) == { d[i].key : i \in 1..Len(d) }
DictSet(d, key, value) ==
  IF key \in DictKeys(d)
  THEN [i \in 1..Len(d) |-> IF d[i].key = key THEN [key |-> key, value |-> value] ELSE d[i]]
  ELSE Append(d, [key |-> key, value |-> value])

\* int(line) is an index into a list of n choices.
DigitValue(ch) == IF ch = "1" THEN 1 ELSE IF ch = "2" THEN 2 ELSE 3
RECURSIVE ToInt(_)
ToInt(s) == IF s = << >> THEN 0 ELSE 10 * ToInt(SubSeq(s, 1, Len(s) - 1)) + DigitValue(s[Len(s)])
IsInteger(s) == s # << >> /\ \A i \in 1..Len(s) : s[i] \in Digits
ValidChoice(line, n) == IsInteger(Strip(line)) /\ ToInt(Strip(line)) \in 1..n

\* The variant that resolves an index to its choice label.
RecordAnswerLabel(d, question, line) ==
  IF Strip(line) = << >> THEN d
  ELSE IF ValidChoice(line, Len(question.choices))
       THEN DictSet(d, question.key, question.choices[ToInt(Strip(line))])
       ELSE DictSet(d, question.key, line)

\* The variant that stores the answer with its surrounding whitespace removed.
RecordAnswerTrimmed(d, question, line) ==
  IF Strip(line) # << >> THEN DictSet(d, question.key, Strip(line)) ELSE d

\* The variant that stores a blank answer instead of omitting the key.
RecordAnswerKeepBlank(d, question, line) == DictSet(d, question.key, line)

\* The body of the prompting loop after input() returned user_answer.
RecordAnswer(d, question, line) ==
  IF Strip(line) # << >> THEN DictSet(d, question.key, line) ELSE d

\* The variant that asks a multiple-choice question again until the index is valid.
AdvanceIfValidChoice(question, line) ==
  question.choices = << >> \/ ValidChoice(line, Len(question.choices))

\* Whether the loop moves on to the next question after this line.
Advance(question, line) == TRUE

\* A slip: a failed run starts over instead of raising.
IW_FailAndRestart(c) ==
  /\ Commit(c)
  /\ result' = result
  /\ pc' = "iw_entry"

IW_Fail(c) ==
  /\ Commit(c)
  /\ result' = Raised(c.exc)
  /\ pc' = "Failed"

IW_Start ==
  /\ pc = "iw_entry"
  /\ Commit(AnimStart(Here, 1))
  /\ Issue(Call("generate_initial_roadmap", NoValue, idea, EmptyAnswers))
  /\ pc' = "Generating"
  /\ UNCHANGED <<cli, caller, with_questions, idea, status_callback, output, initial_roadmap,
                 questions, answers, qi, user_answer, prompts, result, stdout, files,
                 exit_code>>

IW_InitialReturns(r, cb1, cb2, cb3) ==
  /\ pc = "Generating"
  /\ initial_roadmap' = r
  /\ LET c == StageSuccess(Here, 1, MsgInitialComplete,
                           "Error generating initial roadmap", cb1, cb2, cb3)
     IN IF Failing(c)
        THEN /\ IW_Fail(c)
             /\ Complete("value", r)
             /\ UNCHANGED calls
        ELSE /\ Commit(AnimStart(c, 2))
             /\ CompleteAndIssue(r, Call("generate_questions_for_roadmap", r, idea,
                                         EmptyAnswers))
             /\ pc' = "Questioning"
             /\ UNCHANGED result
  /\ UNCHANGED <<cli, caller, with_questions, idea, status_callback, output, questions,
                 answers, qi, user_answer, prompts, stdout, files, exit_code>>

\* A slip: the workflow retries generate_initial_roadmap itself.
IW_InitialRaisesRetry(e, cb2, cb3) ==
  /\ pc = "Generating"
  /\ Len(calls) < 3
  /\ replies' = Append(replies, Reply("raised", e))
  /\ calls' = Append(calls, Call("generate_initial_roadmap", NoValue, idea, EmptyAnswers))
  /\ inflight' = {Len(calls) + 1}
  /\ UNCHANGED <<cli, caller, with_questions, idea, status_callback, output, pc, anims, notes,
                 logged, initial_roadmap, questions, answers, qi, user_answer, prompts,
                 result, stdout, files, exit_code>>

IW_InitialRaises(e, cb2, cb3) ==
  /\ pc = "Generating"
  /\ Complete("raised", e)
  /\ IW_Fail(StageFailure(Here, e, 1, "Error generating initial roadmap", cb2, cb3))
  /\ UNCHANGED <<cli, caller, with_questions, idea, status_callback, output, calls,
                 initial_roadmap, questions, answers, qi, user_answer, prompts, stdout,
                 files, exit_code>>

IW_QuestionsReturn(qs, cb1, cb2, cb3) ==
  /\ pc = "Questioning"
  /\ Complete("value", qs)
  /\ questions' = qs
  /\ LET c == StageSuccess(Here, 2, MsgQuestionsComplete,
                           "Error generating questions", cb1, cb2, cb3)
     IN IF Failing(c)
        THEN /\ IW_Fail(c)
             /\ UNCHANGED <<stdout, answers>>
        ELSE /\ Commit(c)
             /\ stdout' = Append(stdout, [kind |-> "intro", text |-> NoValue])
             /\ answers' = EmptyAnswers
             /\ pc' = "Prompting"
             /\ UNCHANGED result
  /\ UNCHANGED <<cli, caller, with_questions, idea, status_callback, output, calls,
                 initial_roadmap, qi, user_answer, prompts, files, exit_code>>

IW_QuestionsRaise(e, cb2, cb3) ==
  /\ pc = "Questioning"
  /\ Complete("raised", e)
  /\ LET c == QuestionsHelperRaise(Here, e)
     IN IW_Fail(StageFailure(c, c.exc, 2, "Error generating questions", cb2, cb3))
  /\ UNCHANGED <<cli, caller, with_questions, idea, status_callback, output, calls,
                 initial_roadmap, questions, answers, qi, user_answer, prompts, stdout,
                 files, exit_code>>

\* One iteration of the loop over questions.items(): input() returns line.
IW_Prompt(line) ==
  /\ pc = "Prompting"
  /\ qi < Len(questions)
  /\ LET question == questions[qi + 1]
     IN /\ prompts' = Append(prompts, [i |-> qi + 1, key |-> question.key, got |-> "line",
                                      line |-> line])
        /\ user_answer' = line
        /\ answers' = RecordAnswer(answers, question, line)
        /\ qi' = IF Advance(question, line) THEN qi + 1 ELSE qi
  /\ UNCHANGED <<cli, caller, with_questions, idea, status_callback, output, pc, calls,
                 inflight, replies, anims, notes, logged, initial_roadmap, questions, result,
                 stdout, files, exit_code>>

\* input() raises EOFError: no stage handler is active, only the outer one.
InputRaised == [type |-> "EOFError", msg |-> <<"EOF", "when", "reading", "a", "line">>]

IW_PromptEOF(cb3) ==
  /\ pc = "Prompting"
  /\ qi < Len(questions)
  /\ prompts' = Append(prompts, [i |-> qi + 1, key |-> questions[qi + 1].key,
                                got |-> "eof", line |-> << >>])
  /\ IW_Fail(OuterHandler(Here, InputRaised, cb3))
  /\ UNCHANGED <<cli, caller, with_questions, idea, status_callback, output, calls, inflight,
                 replies, initial_roadmap, questions, answers, qi, user_answer, stdout,
                 files, exit_code>>

\* A slip: the reflection may start before the loop has seen every question.
IW_CallRefineEarly ==
  /\ pc = "Prompting"
  /\ Commit(AnimStart(Here, 3))
  /\ Issue(Call("reflect_on_roadmap_with_answers", initial_roadmap, idea, answers))
  /\ pc' = "Reflecting"
  /\ UNCHANGED <<cli, caller, with_questions, idea, status_callback, output,
                 initial_roadmap, questions, answers, qi, user_answer, prompts, result,
                 stdout, files, exit_code>>

\* The loop is over: start the reflection animation and call the client.
IW_CallRefine ==
  /\ pc = "Prompting"
  /\ qi = Len(questions)
  /\ Commit(AnimStart(Here, 3))
  /\ Issue(Call("reflect_on_roadmap_with_answers", initial_roadmap, idea, answers))
  /\ pc' = "Reflecting"
  /\ UNCHANGED <<cli, caller, with_questions, idea, status_callback, output, initial_roadmap,
                 questions, answers, qi, user_answer, prompts, result, stdout, files,
                 exit_code>>

IW_RefineReturns(r, cb1, cb2, cb3) ==
  /\ pc = "Reflecting"
  /\ Complete("value", r)
  /\ LET c == StageSuccess(Here, 3, MsgCustomizationComplete,
                           "Error during reflection process", cb1, cb2, cb3)
     IN IF Failing(c)
        THEN IW_Fail(c)
        ELSE /\ Commit(c)
             /\ result' = Returned(r)
             /\ pc' = "Done"
  /\ UNCHANGED <<cli, caller, with_questions, idea, status_callback, output, calls,
                 initial_roadmap, questions, answers, qi, user_answer, prompts, stdout,
                 files, exit_code>>

\* A slip: a failed refinement falls back to the initial roadmap.
IW_RefineRaisesFallback(e, cb2, cb3) ==
  /\ pc = "Reflecting"
  /\ Complete("raised", e)
  /\ Commit(LogError(AnimStop(Here, 3), "Error during reflection process"))
  /\ result' = Returned(initial_roadmap)
  /\ pc' = "Done"
  /\ UNCHANGED <<cli, caller, with_questions, idea, status_callback, output, calls,
                 initial_roadmap, questions, answers, qi, user_answer, prompts, stdout,
                 files, exit_code>>

IW_RefineRaises(e, cb2, cb3) ==
  /\ pc = "Reflecting"
  /\ Complete("raised", e)
  /\ IW_Fail(StageFailure(Here, e, 3, "Error during reflection process", cb2, cb3))
  /\ UNCHANGED <<cli, caller, with_questions, idea, status_callback, output, calls,
                 initial_roadmap, questions, answers, qi, user_answer, prompts, stdout,
                 files, exit_code>>

InteractiveNext ==
  \/ IW_Start
  \/ \E r \in Roadmaps, b1, b2, b3 \in BOOLEAN : IW_InitialReturns(r, b1, b2, b3)
  \/ \E e \in ClientFailures, b2, b3 \in BOOLEAN : IW_InitialRaises(e, b2, b3)
  \/ \E qs \in QuestionSets, b1, b2, b3 \in BOOLEAN : IW_QuestionsReturn(qs, b1, b2, b3)
  \/ \E e \in ClientFailures, b2, b3 \in BOOLEAN : IW_QuestionsRaise(e, b2, b3)
  \/ \E line \in Inputs : IW_Prompt(line)
  \/ \E b3 \in BOOLEAN : IW_PromptEOF(b3)
  \/ IW_CallRefine
  \/ \E r \in RefinedRoadmaps, b1, b2, b3 \in BOOLEAN : IW_RefineReturns(r, b1, b2, b3)
  \/ \E e \in ClientFailures, b2, b3 \in BOOLEAN : IW_RefineRaises(e, b2, b3)

\* ------------------------------------------------------------- main
\* A slip: the file is opened at the path as given.
JoinPathGivenOnly(dir, name) == name

\* os.path.join(dir, name): an absolute name discards dir.
JoinPath(dir, name) == IF name # << >> /\ Head(name) = "/" THEN name ELSE <<dir>> \o name

\* add_argument('--animation', choices=[...]): what parse_args accepts.
AnimationChoices == {"spinner", "dots", "bar", "typing"}
\* The variant without `choices`: any value is parsed and mapped afterwards.
ArgsAcceptedAny(a) == TRUE
ArgsAccepted(a) == a \in AnimationChoices

\* animation_map.get(args.animation, AnimationType.SPINNER)
AnimationMap ==
  [a \in AnimationChoices |->
     IF a = "spinner" THEN "SPINNER" ELSE IF a = "dots" THEN "DOTS"
     ELSE IF a = "bar" THEN "BAR" ELSE "TYPING"]
AnimationTypeOf(a) == IF a \in DOMAIN AnimationMap THEN AnimationMap[a] ELSE "SPINNER"

NameErrorRaised ==
  [type |-> "NameError", msg |-> <<"name", "'asyncio'", "is", "not", "defined">>]

\* A slip: the except block reports the error but does not call sys.exit(1).
ExitStatusSwallowed(failed) == 0
\* The process status: sys.exit(1) in the except block, 0 when main returns.
ExitStatus(failed) == IF failed THEN 1 ELSE 0

\* parse_args rejects the command line: usage error, exit status 2.
Main_Reject ==
  /\ pc = "main_entry"
  /\ ~ArgsAccepted(animation)
  /\ pc' = "usage_error"
  /\ exit_code' = <<2>>
  /\ UNCHANGED <<cli, caller, with_questions, idea, status_callback, output, calls,
                 inflight, replies, anims, notes, logged, initial_roadmap, questions,
                 answers, qi, user_answer, prompts, result, stdout, files>>

\* main up to the call of the selected workflow.
Main_Run ==
  /\ pc = "main_entry"
  /\ ArgsAccepted(animation)
  /\ asyncio_imported
  /\ animation_type' = AnimationTypeOf(animation)
  /\ pc' = IF with_questions THEN "iw_entry" ELSE "sw_entry"
  /\ UNCHANGED <<animation, asyncio_imported, caller, with_questions, idea,
                 status_callback, output, calls, inflight, replies, anims, notes, logged,
                 initial_roadmap, questions, answers, qi, user_answer, prompts, result,
                 stdout, files, exit_code>>

\* main called without the script's `import asyncio`: asyncio.run is a
\* NameError, caught by main's except Exception.
Main_NameError ==
  /\ pc = "main_entry"
  /\ ArgsAccepted(animation)
  /\ ~asyncio_imported
  /\ animation_type' = AnimationTypeOf(animation)
  /\ pc' = "main_failed"
  /\ stdout' = Append(stdout, [kind |-> "error", text |-> NameErrorRaised.msg])
  /\ exit_code' = <<ExitStatus(TRUE)>>
  /\ UNCHANGED <<animation, asyncio_imported, caller, with_questions, idea,
                 status_callback, output, calls, inflight, replies, anims, notes, logged,
                 initial_roadmap, questions, answers, qi, user_answer, prompts, result,
                 files>>

\* main after the workflow returned or raised; writeOk: makedirs/open/write succeed.
Main_Finish(writeOk) ==
  /\ caller = "main"
  /\ exit_code = << >>
  /\ pc \in {"Done", "Failed"}
  /\ IF result.kind = "value"
     THEN LET out1 == Append(stdout, [kind |-> "complete", text |-> NoValue])
              file_path == JoinPath("roadmaps", output)
          IN IF output # NoOutput
             THEN IF writeOk
                  THEN /\ files' = files \cup {[path |-> file_path, content |-> result.value]}
                       /\ stdout' = Append(out1, [kind |-> "saved", text |-> file_path])
                       /\ exit_code' = <<ExitStatus(FALSE)>>
                  ELSE /\ files' = files
                       /\ stdout' = Append(out1, [kind |-> "error", text |-> WriteRaised.msg])
                       /\ exit_code' = <<ExitStatus(TRUE)>>
             ELSE /\ files' = files
                  /\ stdout' = Append(out1, [kind |-> "roadmap", text |-> result.value])
                  /\ exit_code' = <<ExitStatus(FALSE)>>
     ELSE /\ files' = files
          /\ stdout' = Append(stdout, [kind |-> "error", text |-> result.exc.msg])
          /\ exit_code' = <<ExitStatus(TRUE)>>
  /\ UNCHANGED <<cli, caller, with_questions, idea, status_callback, output, pc, calls,
                 inflight, replies, anims, notes, logged, initial_roadmap, questions,
                 answers, qi, user_answer, prompts, result>>

MainNext ==
  \/ Main_Reject
  \/ Main_Run
  \/ Main_NameError
  \/ \E writeOk \in BOOLEAN : Main_Finish(writeOk)

Next == SimpleNext \/ InteractiveNext \/ MainNext

Spec == Init /\ [][Next]_vars

\* The interactive workflow called directly, with progress assumed: the single
\* thread of control always takes its next step, every remote call resolves
\* and every input() returns.
InteractiveInit == Init /\ caller = "direct" /\ with_questions
FairInteractive ==
  InteractiveInit /\ [][InteractiveNext]_vars /\ WF_vars(InteractiveNext)

\* =============================================================== claims
InitialOp == "generate_initial_roadmap"
QuestionsOp == "generate_questions_for_roadmap"
RefineOp == "reflect_on_roadmap_with_answers"

\* The i-th call has completed, with a value / with exception e.
ReturnedValue(i) == i <= Len(replies) /\ replies[i].call = i /\ replies[i].kind = "value"
RaisedError(i, e) ==
  i <= Len(replies) /\ replies[i].call = i /\ replies[i].kind = "raised"
    /\ replies[i].value = e

\* C1: in the simple workflow the calls are generate_initial(idea) once, then
\* refine once with the roadmap generate_initial returned, the same idea and an
\* empty AnswerSet; when both return, the workflow returns refine's value (or,
\* with a raising status callback, that callback's exception and no value).
C1_SimpleCallsAndResult ==
  ~with_questions =>
    /\ Len(calls) <= 2
    /\ Len(calls) >= 1 => calls[1] = Call(InitialOp, NoValue, idea, << >>)
    /\ Len(calls) >= 2 =>
         /\ ReturnedValue(1)
         /\ calls[2] = Call(RefineOp, replies[1].value, idea, << >>)
    /\ (ReturnedValue(1) /\ ReturnedValue(2)) =>
         \/ pc = "Done" /\ result = Returned(replies[2].value)
         \/ pc = "Failed" /\ status_callback = "given" /\ result = Raised(CallbackRaised)
    /\ result.kind = "value" =>
         ReturnedValue(1) /\ ReturnedValue(2) /\ result.value = replies[2].value

C1_Witness ==
  /\ ~with_questions
  /\ idea = "a grocery list app"
  /\ pc = "Done"
  /\ Len(calls) = 2
  /\ calls[2].roadmap = "R1"
  /\ result = Returned("R1-refined")

\* C2: in the interactive workflow the remote calls are issued in the order
\* generate_initial, generate_questions, refine, each at most once, each only
\* after the previous one returned a value, and never two in flight.
InteractiveOrder == <<InitialOp, QuestionsOp, RefineOp>>

C2_InteractiveSequential ==
  with_questions =>
    /\ Len(calls) <= 3
    /\ \A i \in 1..Len(calls) : calls[i].op = InteractiveOrder[i]
    /\ \A i \in 2..Len(calls) : ReturnedValue(i - 1)
    /\ Cardinality(inflight) <= 1
    /\ inflight = { i \in 1..Len(calls) : i > Len(replies) }

C2_Witness ==
  /\ with_questions
  /\ pc = "Done"
  /\ Len(calls) = 3
  /\ Len(replies) = 3
  /\ inflight = {}

\* C3: once generate_initial has failed with the overload error, no other
\* remote call is made, the user is never prompted and the workflow has
\* Failed, in the simple and in the interactive workflow.
C3_OverloadOnInitialStops ==
  RaisedError(1, OverloadRaised) =>
    /\ Len(calls) = 1
    /\ calls[1].op = InitialOp
    /\ prompts = << >>
    /\ pc = "Failed"
    /\ result.kind = "error"

C3_Witness ==
  /\ with_questions
  /\ RaisedError(1, OverloadRaised)
  /\ pc = "Failed"
  /\ anims = <<[ev |-> "start", id |-> 1], [ev |-> "stop", id |-> 1]>>

\* ----------------------------------------------------------- C4, C5
HasWord(text, words) == \E i \in 1..Len(text) : text[i] \in words
MentionsRetries(text) == HasWord(text, {"retry", "retries", "retried", "retrying"})
\* The user-facing "service overloaded, try again later" text.
SaysOverloadedTryLater(text) ==
  /\ HasWord(text, {"overloaded", "overloaded."})
  /\ HasWord(text, {"try"})
  /\ HasWord(text, {"again"})
  /\ HasWord(text, {"later", "later."})

\* The run failed because its last remote call raised e.
RemoteCallRaised(e) ==
  /\ pc = "Failed"
  /\ replies # << >>
  /\ replies[Len(replies)].kind = "raised"
  /\ replies[Len(replies)].value = e

CallbackHasRaised == \E i \in 1..Len(notes) : notes[i].raised

\* C4 (as claimed): when a run fails because a remote call raised the overload
\* error, the message of the error the caller gets says that retries were
\* attempted.  Stated for the runs in which no callback exception is involved.
C4_OverloadMessageMentionsRetries ==
  (RemoteCallRaised(OverloadRaised) /\ ~CallbackHasRaised) =>
    MentionsRetries(result.exc.msg)

AnyCallRaised == \E i \in 1..Len(replies) : replies[i].kind = "raised"
AllCallsReturned ==
  /\ Len(replies) = Len(calls)
  /\ \A i \in 1..Len(replies) : replies[i].kind = "value"
RoadmapsPrinted == { stdout[i].text : i \in { j \in 1..Len(stdout) : stdout[j].kind = "roadmap" } }
RoadmapsWritten == { f.content : f \in files }

\* C6: a workflow returns a Roadmap only if every remote call of the run
\* returned, and then it is the value refine returned; after a failed remote
\* call nothing is returned, printed as a Roadmap or written to a file.
C6_AllOrNothing ==
  /\ result.kind = "value" =>
       /\ AllCallsReturned
       /\ Len(calls) = (IF with_questions THEN 3 ELSE 2)
       /\ calls[Len(calls)].op = RefineOp
       /\ result.value = replies[Len(replies)].value
  /\ AnyCallRaised =>
       /\ result.kind # "value"
       /\ RoadmapsPrinted = {}
       /\ RoadmapsWritten = {}
  /\ \A r \in RoadmapsPrinted \cup RoadmapsWritten :
       result.kind = "value" /\ r = result.value

C6_Witness ==
  /\ caller = "main"
  /\ with_questions
  /\ output = <<"plan.md">>
  /\ Len(calls) = 3
  /\ AnyCallRaised
  /\ exit_code = <<1>>
  /\ files = {}

\* --------------------------------------------------------------- C7
Count(ev, id) == Cardinality({ i \in 1..Len(anims) : anims[i] = [ev |-> ev, id |-> id] })
StageOver(id) ==
  \/ pc \in {"Done", "Failed"}
  \/ id = 1 /\ pc \in {"Questioning", "Prompting", "Reflecting"}
  \/ id = 2 /\ pc \in {"Prompting", "Reflecting"}

\* C7 (as claimed): each animation is stopped exactly once per start on every
\* exit path of its stage, also when the status callback raises in the stage.
C7_StopOncePerStart ==
  \A id \in 1..3 :
    /\ Count("stop", id) <= Count("start", id)
    /\ StageOver(id) => Count("stop", id) = Count("start", id)

\* ------------------------------------------------------- C8, C9, C10
QuestionOf(key) == CHOOSE q \in QuestionPool : q.key = key
HasChoices(key) == QuestionOf(key).choices # << >>
NumChoices(key) == Len(QuestionOf(key).choices)
LinePrompts == { j \in 1..Len(prompts) : prompts[j].got = "line" }
AnswerOf(d, key) == (CHOOSE i \in 1..Len(d) : d[i].key = key)
Blank(line) == Strip(line) = << >>
AnswersUsable == with_questions /\ pc \in {"Prompting", "Reflecting", "Done", "Failed"}

\* C8 (as claimed): for a question with a list of N choices a line that is not
\* an integer in 1..N makes the prompt ask the same question again, does not
\* advance and leaves the AnswerSet without an entry for it.
C8_Original_ChoiceValidated ==
  \A j \in LinePrompts :
    (HasChoices(prompts[j].key) /\ ~ValidChoice(prompts[j].line, NumChoices(prompts[j].key))) =>
      /\ prompts[j].key \notin DictKeys(answers)
      /\ qi < prompts[j].i
      /\ j < Len(prompts) => prompts[j + 1].i = prompts[j].i

\* C8 (amended): a choice list is not enforced.  Every question, with or
\* without choices, is asked exactly once and every line is accepted: the loop
\* advances, and the AnswerSet gets the line as typed under the question's key
\* unless the line is blank after trimming, which leaves it unchanged.
C8_EveryLineAccepted ==
  /\ \A j \in 1..Len(prompts) : prompts[j].i = j /\ prompts[j].key = questions[j].key
  /\ \A j \in LinePrompts :
       /\ qi >= j
       /\ IF Blank(prompts[j].line)
          THEN prompts[j].key \notin DictKeys(answers)
          ELSE /\ prompts[j].key \in DictKeys(answers)
               /\ answers[AnswerOf(answers, prompts[j].key)].value = prompts[j].line
  /\ qi = Cardinality(LinePrompts)

C8_Witness ==
  /\ pc = "Prompting"
  /\ Len(questions) = 2
  /\ questions[1].key = "team size"
  /\ prompts = <<[i |-> 1, key |-> "team size", got |-> "line", line |-> <<"3">>]>>
  /\ qi = 1
  /\ answers = <<[key |-> "team size", value |-> <<"3">>]>>

TeamSizeOnly == <<QuestionOf("team size")>>
ScenarioC9 ==
  /\ with_questions
  /\ idea = "a grocery list app"
  /\ questions = TeamSizeOnly
  /\ Len(prompts) = 1
  /\ prompts[1].got = "line"
  /\ prompts[1].line = <<"1">>
  /\ Len(calls) = 3

\* C9 (as claimed): with QuestionSet {"team size": ["Solo","Team"]} and input
\* "1", refine is called with AnswerSet {"team size": "Solo"}.
C9_Original_LabelRecorded ==
  ScenarioC9 => calls[3].answers = <<[key |-> "team size", value |-> Solo]>>

\* C9 (amended): the answer recorded and passed to refine is the text the
\* user typed, not the choice label at that index: in the scenario refine is
\* called with AnswerSet {"team size": "1"}; in general every entry passed to
\* refine is a line typed at the prompt of its question.
C9_TypedTextRecorded ==
  /\ ScenarioC9 => calls[3].answers = <<[key |-> "team size", value |-> <<"1">>]>>
  /\ (with_questions /\ Len(calls) = 3) =>
       /\ calls[3].answers = answers
       /\ \A i \in 1..Len(answers) :
            \E j \in LinePrompts :
              prompts[j].key = answers[i].key /\ prompts[j].line = answers[i].value

C9_Witness ==
  /\ ScenarioC9
  /\ pc = "Done"
  /\ result.kind = "value"

\* C10: during and after Prompting the AnswerSet has at most one entry per
\* QuestionSet entry, only QuestionSet keys, entries in QuestionSet order
\* (questions are asked in that order too), and no entry, not even an empty
\* one, for a question whose line was left blank.
QuestionIndex(key) == CHOOSE i \in 1..Len(questions) : questions[i].key = key

C10_AnswerSetShape ==
  AnswersUsable =>
    /\ \A i, j \in 1..Len(answers) : i # j => answers[i].key # answers[j].key
    /\ Len(answers) <= Len(questions)
    /\ DictKeys(answers) \subseteq { questions[i].key : i \in 1..Len(questions) }
    /\ \A i, j \in 1..Len(answers) :
         i < j => QuestionIndex(answers[i].key) < QuestionIndex(answers[j].key)
    /\ \A j \in 1..Len(prompts) : prompts[j].key = questions[j].key
    /\ \A j \in LinePrompts : Blank(prompts[j].line) => prompts[j].key \notin DictKeys(answers)
    /\ \A i \in 1..Len(answers) : ~Blank(answers[i].value)

C10_Witness ==
  /\ pc = "Reflecting"
  /\ Len(questions) = 2
  /\ Len(prompts) = 2
  /\ prompts[1].line = << >>
  /\ prompts[2].line = <<"x">>
  /\ answers = <<[key |-> questions[2].key, value |-> <<"x">>]>>

\* ----------------------------------------------------------- C11, C12
CompletionMsg == <<MsgInitialComplete, MsgQuestionsComplete, MsgCustomizationComplete>>
\* The notifications delivered while exactly k remote calls had been issued:
\* after call k was issued and before call k + 1.
NotesAt(k) == { i \in 1..Len(notes) : notes[i].at = k }
\* Notifications delivered before call k that are not the completion notice
\* of the call before it.
StartingNotes(k) == { i \in NotesAt(k - 1) : k = 1 \/ notes[i].msg # CompletionMsg[k - 1] }
CompletionNotes(k) == { i \in 1..Len(notes) : notes[i].msg = CompletionMsg[k] }

\* C11 (as claimed): with a status callback, each remote call of the
\* interactive workflow has a notification of its own before it is issued and
\* one after it returned, all distinct.
C11_Original_BeforeAndAfter ==
  (with_questions /\ status_callback = "given") =>
    /\ \A k \in 1..Len(calls) :
         /\ StartingNotes(k) # {}
         /\ ReturnedValue(k) => CompletionNotes(k) # {}
    /\ Cardinality({ CompletionMsg[k] : k \in 1..3 }) = 3

\* C11 (amended): no notification precedes a remote call.  Each remote call
\* that returned a value is followed, before the next call is issued, by
\* exactly one completion notification, and the three completion
\* notifications are pairwise distinct.
C11_CompletionNotifications ==
  (with_questions /\ status_callback = "given") =>
    /\ \A k \in 1..Len(calls) :
         /\ StartingNotes(k) = {}
         /\ ReturnedValue(k) =>
              /\ Cardinality(CompletionNotes(k)) = 1
              /\ CompletionNotes(k) \subseteq NotesAt(k)
              /\ \A i \in NotesAt(k) : \E j \in CompletionNotes(k) : j <= i
    /\ Cardinality({ CompletionMsg[k] : k \in 1..3 }) = 3

C11_Witness ==
  /\ with_questions
  /\ status_callback = "given"
  /\ pc = "Done"
  /\ Len(notes) = 3
  /\ \A k \in 1..3 : notes[k].msg = CompletionMsg[k] /\ notes[k].at = k

\* C12 (as claimed): with a status callback, a successful run of the simple
\* workflow notifies twice: after generate_initial returned and before refine
\* is called, and after refine returned.
C12_Original_TwoCheckpoints ==
  (~with_questions /\ status_callback = "given" /\ pc = "Done") =>
    /\ Len(notes) = 2
    /\ notes[1].at = 1
    /\ notes[2].at = 2

\* C12 (amended): a successful run of the simple workflow notifies once, when
\* the whole workflow has completed (after refine returned); nothing is
\* notified between generate_initial and refine.
C12_OneCheckpoint ==
  (~with_questions /\ status_callback = "given") =>
    /\ pc \in {"sw_entry", "sw_initial", "sw_refine"} => notes = << >>
    /\ pc = "Done" =>
         /\ ReturnedValue(2)
         /\ notes = <<[msg |-> <<OkMark, "Roadmap", "generation", "complete!">>,
                       raised |-> FALSE, at |-> 2]>>

C12_Witness ==
  /\ ~with_questions
  /\ status_callback = "given"
  /\ pc = "Done"
  /\ result = Returned("R2-refined")
  /\ Len(notes) = 1

\* --------------------------------------------------------------- C13
CallsOf(op) == { i \in 1..Len(calls) : calls[i].op = op }

\* C13: in the interactive workflow refine is called only after every
\* QuestionSet entry was prompted, with the roadmap generate_initial
\* returned, the caller's idea and the AnswerSet as Prompting left it; the
\* QuestionSet is iterated once, the AnswerSet is passed to one call, and the
\* workflow returns what refine returned.
C13_RefineAfterPrompting ==
  with_questions =>
    /\ Len(calls) = 3 =>
         /\ ReturnedValue(1) /\ ReturnedValue(2)
         /\ questions = replies[2].value
         /\ qi = Len(questions)
         /\ Len(prompts) = Len(questions)
         /\ \A j \in 1..Len(prompts) :
              prompts[j].got = "line" /\ prompts[j].i = j /\ prompts[j].key = questions[j].key
         /\ calls[3] = Call(RefineOp, replies[1].value, idea, answers)
    /\ Cardinality(CallsOf(QuestionsOp)) <= 1
    /\ Cardinality(CallsOf(RefineOp)) <= 1
    /\ pc = "Done" => Len(calls) = 3 /\ ReturnedValue(3) /\ result = Returned(replies[3].value)
    /\ result.kind = "value" => pc = "Done"

C13_Witness ==
  /\ with_questions
  /\ pc = "Done"
  /\ Len(questions) = 2
  /\ Len(answers) = 2
  /\ calls[3].roadmap = "R2"
  /\ result = Returned("R1-refined")

\* --------------------------------------------------------------- C14
Printed(kind) == { i \in 1..Len(stdout) : stdout[i].kind = kind }
Exited == caller = "main" /\ exit_code # << >>
WorkflowFailed == result.kind = "error"
OutputStepDone ==
  IF output = NoOutput THEN Printed("roadmap") # {} ELSE files # {}
WriteFailed == Exited /\ result.kind = "value" /\ ~OutputStepDone
LastPrinted == stdout[Len(stdout)]

\* C14 (as claimed): main exits 0 exactly when the workflow returned a Roadmap
\* and the output step succeeded; after a failure of the workflow or of the
\* file write it has printed the error and exits non-zero, and the line
\* "Roadmap generation complete!" is never printed in a failed run.
C14_Original_ExitStatus ==
  Exited =>
    /\ exit_code = <<0>> <=> (result.kind = "value" /\ OutputStepDone)
    /\ (WorkflowFailed \/ WriteFailed) =>
         /\ exit_code # <<0>>
         /\ Printed("error") # {}
    /\ exit_code # <<0>> => Printed("complete") = {}

\* C14 (amended): the same, except that the line "Roadmap generation
\* complete!" is printed as soon as the workflow returned, before the output
\* step: it is never printed in a run whose workflow failed, and it is printed
\* in a run that fails in the file write.
C14_ExitStatus ==
  Exited =>
    /\ exit_code = <<0>> <=> (result.kind = "value" /\ OutputStepDone)
    /\ WorkflowFailed =>
         /\ exit_code = <<1>>
         /\ LastPrinted = [kind |-> "error", text |-> result.exc.msg]
         /\ Printed("complete") = {}
    /\ WriteFailed =>
         /\ exit_code = <<1>>
         /\ LastPrinted = [kind |-> "error", text |-> WriteRaised.msg]
         /\ Cardinality(Printed("complete")) = 1
    /\ Printed("complete") # {} <=> result.kind = "value"

C14_Witness ==
  /\ WriteFailed
  /\ ~with_questions
  /\ exit_code = <<1>>
  /\ Len(stdout) = 2
  /\ stdout[1].kind = "complete"
  /\ stdout[2].kind = "error"

\* --------------------------------------------------------------- C15
IsAbsolute(path) == path # << >> /\ Head(path) = "/"
SavedLines == { stdout[i].text : i \in Printed("saved") }

\* C15 (as claimed): with an output argument the Roadmap is written unchanged
\* to exactly the path given, a confirmation is printed and the Roadmap is not
\* printed; without it the Roadmap is printed and no file is written.
C15_Original_OutputRouting ==
  (Exited /\ exit_code = <<0>>) =>
    IF output # NoOutput
    THEN /\ files = {[path |-> output, content |-> result.value]}
         /\ Printed("saved") # {}
         /\ RoadmapsPrinted = {}
    ELSE /\ files = {}
         /\ RoadmapsPrinted = {result.value}

\* C15 (amended): with an output argument the Roadmap is written unchanged to
\* the path given joined onto the directory "roadmaps" (the path given itself
\* only when it is absolute), the confirmation names that path and the Roadmap
\* is not printed; without it the Roadmap is printed and no file is written.
C15_OutputRouting ==
  /\ (Exited /\ exit_code = <<0>>) =>
       IF output # NoOutput
       THEN LET written == IF IsAbsolute(output) THEN output ELSE <<"roadmaps">> \o output
            IN /\ files = {[path |-> written, content |-> result.value]}
               /\ SavedLines = {written}
               /\ RoadmapsPrinted = {}
       ELSE /\ files = {}
            /\ SavedLines = {}
            /\ RoadmapsPrinted = {result.value}
  /\ files # {} => (Exited /\ exit_code = <<0>> /\ output # NoOutput)

C15_Witness ==
  /\ exit_code = <<0>>
  /\ output = <<"plan.md">>
  /\ files = {[path |-> <<"roadmaps", "plan.md">>, content |-> "R1-refined"]}
  /\ Printed("saved") # {}

\* --------------------------------------------------------------- C16
Recognized == {"spinner", "dots", "bar", "typing"}
StyleOf(a) ==
  IF a = "spinner" THEN "SPINNER" ELSE IF a = "dots" THEN "DOTS"
  ELSE IF a = "bar" THEN "BAR" ELSE "TYPING"
Parsed == caller = "main" /\ pc # "main_entry"

\* C16 (as claimed): a recognized --animation value selects its style; an
\* unrecognized one falls back to the spinner and the workflow still runs.
C16_Original_AnimationFallback ==
  Parsed =>
    /\ pc # "usage_error"
    /\ animation_type = (IF animation \in Recognized THEN StyleOf(animation) ELSE "SPINNER")

\* C16 (amended): a recognized --animation value selects its style; an
\* unrecognized one is rejected by the argument parser with a usage error
\* (exit status 2) before the workflow starts, so nothing runs.
C16_AnimationSelection ==
  Parsed =>
    IF animation \in Recognized
    THEN /\ pc # "usage_error"
         /\ animation_type = StyleOf(animation)
    ELSE /\ pc = "usage_error"
         /\ exit_code = <<2>>
         /\ calls = << >>
         /\ anims = << >>
         /\ stdout = << >>

C16_Witness ==
  /\ caller = "main"
  /\ animation = "bounce"
  /\ pc = "usage_error"
  /\ exit_code = <<2>>

\* --------------------------------------------------------------- C17
Terminal == {"Done", "Failed"}
Rank(p) ==
  IF p = "iw_entry" THEN 0 ELSE IF p = "Generating" THEN 1
  ELSE IF p = "Questioning" THEN 2 ELSE IF p = "Prompting" THEN 3
  ELSE IF p = "Reflecting" THEN 4 ELSE 5

\* C17: with every remote call resolving and every prompt answered, a run of
\* the interactive workflow ends in Done (a value returned) or Failed (an
\* error raised); the stages are passed in order, none is entered again, and
\* nothing leaves Done or Failed.
C17_ReachesOneTerminal ==
  /\ <>(pc \in Terminal)
  /\ [][pc' # pc => (pc \notin Terminal /\ Rank(pc') > Rank(pc))]_vars
  /\ [](pc = "Done" => result.kind = "value")
  /\ [](pc = "Failed" => result.kind = "error")
  /\ [](pc \notin Terminal => result.kind = "none")

C17_Witness ==
  /\ pc = "Failed"
  /\ Len(calls) = 3
  /\ Len(questions) = 2
  /\ qi = 2
  /\ result.kind = "error"

\* --------------------------------------------------------------- C18
\* Animation id is running after the first k events of the log: it was
\* started and not stopped since.
RunningAt(id, k) ==
  \E i \in 1..k :
    /\ anims[i] = [ev |-> "start", id |-> id]
    /\ \A j \in (i + 1)..k : anims[j] # [ev |-> "stop", id |-> id]
RunningNow == { id \in 1..3 : RunningAt(id, Len(anims)) }

\* C18: in the interactive workflow at most one animation runs at any moment,
\* none runs while the user is prompted, and none runs once the workflow has
\* returned or raised, whichever stage failed and also when the status
\* callback raised.
C18_AnimationsExclusive ==
  with_questions =>
    /\ \A k \in 0..Len(anims) : Cardinality({ id \in 1..3 : RunningAt(id, k) }) <= 1
    /\ pc \in {"Prompting", "Done", "Failed"} => RunningNow = {}
    /\ pc = "Generating" => RunningNow = {1}
    /\ pc = "Questioning" => RunningNow = {2}
    /\ pc = "Reflecting" => RunningNow = {3}

\* The reflection failed and the status callback raised in the stage's handler.
C18_Witness ==
  /\ with_questions
  /\ pc = "Failed"
  /\ Len(calls) = 3
  /\ replies[3].kind = "raised"
  /\ CallbackHasRaised
  /\ Count("start", 3) = 1
  /\ RunningNow = {}

\* --------------------------------------------------------------- C19
ErrorNotes == { i \in 1..Len(notes) : Head(notes[i].msg) = ErrMark }
SuccessNotes == { i \in 1..Len(notes) : Head(notes[i].msg) = OkMark }
RemoteCallFailed ==
  /\ pc = "Failed"
  /\ replies # << >>
  /\ replies[Len(replies)].kind = "raised"

\* C19: with a status callback that never raises, a run in which a remote
\* call failed has delivered exactly two error notifications in the
\* interactive workflow (the stage handler's, then the outer handler's) and
\* exactly one in the simple workflow, and they are the last notifications
\* of the run; a success notification is delivered only after the remote
\* call of its stage returned a value.
C19_ErrorNotifications ==
  status_callback = "given" =>
    /\ (~CallbackHasRaised /\ RemoteCallFailed /\ with_questions) =>
         /\ Cardinality(ErrorNotes) = 2
         /\ ErrorNotes = {Len(notes) - 1, Len(notes)}
         /\ notes[Len(notes)].msg \in {MsgOverloadStatus, notes[Len(notes) - 1].msg}
         /\ \A i \in ErrorNotes : notes[i].at = Len(calls)
    /\ (~CallbackHasRaised /\ RemoteCallFailed /\ ~with_questions) =>
         /\ Cardinality(ErrorNotes) = 1
         /\ ErrorNotes = {Len(notes)}
    /\ (~CallbackHasRaised /\ pc # "Failed") => ErrorNotes = {}
    /\ \A i \in SuccessNotes :
         IF with_questions
         THEN \E k \in 1..3 :
                /\ notes[i].msg = CompletionMsg[k]
                /\ notes[i].at = k
                /\ ReturnedValue(k)
         ELSE /\ notes[i].msg = MsgSimpleComplete
              /\ ReturnedValue(1)
              /\ ReturnedValue(2)

\* The reflection call raised the overload error after two stages succeeded.
C19_Witness ==
  /\ with_questions
  /\ status_callback = "given"
  /\ ~CallbackHasRaised
  /\ RemoteCallFailed
  /\ Len(calls) = 3
  /\ Len(notes) = 4
  /\ notes[3].msg # MsgOverloadStatus
  /\ notes[4].msg = MsgOverloadStatus

\* --------------------------------------------------------------- C20
Skipped(j) == prompts[j].key \notin DictKeys(answers)
PromptsOf(q) == { j \in 1..Len(prompts) : prompts[j].i = q }

\* C20: a typed line is skipped exactly when nothing is left of it after
\* trimming whitespace; any other line is recorded under the question's key
\* exactly as typed, surrounding whitespace included; and each question is
\* prompted once, whatever was typed.
C20_SkipExactlyWhenBlank ==
  /\ \A j \in LinePrompts : Skipped(j) <=> Strip(prompts[j].line) = << >>
  /\ \A j \in LinePrompts :
       ~Skipped(j) =>
         LET value == answers[AnswerOf(answers, prompts[j].key)].value
         IN /\ value = prompts[j].line
            /\ Len(value) = Len(prompts[j].line)
  /\ Len(answers) = Cardinality({ j \in LinePrompts : ~Skipped(j) })
  /\ \A q \in 1..Len(questions) :
       Cardinality(PromptsOf(q)) = IF q <= Len(prompts) THEN 1 ELSE 0
  /\ pc \in {"Reflecting", "Done"} => Len(prompts) = Len(questions)

\* A whitespace-only line was skipped and a padded line was kept as typed.
C20_Witness ==
  /\ pc = "Reflecting"
  /\ Len(questions) = 2
  /\ Len(prompts) = 2
  /\ prompts[1].line = <<" ">>
  /\ prompts[2].line = <<" ", "1", " ">>
  /\ answers = <<[key |-> questions[2].key, value |-> <<" ", "1", " ">>]>>
  /\ calls[3].answers = answers

====
